---- MODULE Spec2Model ----
(***************************************************************************)
(* Model of the impulse-log backend (Express server over two PostgreSQL    *)
(* tables and an OpenAI-compatible completion service) and of the state of *)
(* the Dashboard and Chat screens of one browser.                          *)
(*                                                                         *)
(* Time is counted in whole hours since an arbitrary epoch; a TIMESTAMP is *)
(* an integer number of hours, a DATE is the integer number of days.       *)
(* Text that the server inspects character by character (feeling, chat     *)
(* message) is a sequence of one-character strings.  Text returned by the  *)
(* completion service for emotion analysis is a sequence of JSON tokens.   *)
(* Chinese string literals of the source are written in English.           *)
(***************************************************************************)
EXTENDS Integers, Sequences, FiniteSets, TLC

VARIABLES
    logs,       \* table impulse_logs: set of rows [id, datetime, feeling, acted]
    logSeq,     \* last value handed out by impulse_logs_id_seq
    reports,    \* table reports: set of rows [id, week_start, week_end, content]
    reportSeq,  \* last value handed out by reports_id_seq
    now,        \* wall clock (hours)
    gen,        \* in-flight POST /api/reports/generate requests, by slot
    resp,       \* the response most recently sent by the server
    dashboardLogs,  \* Dashboard screen: the state `logs`, the rows last fetched
    chatMessages,   \* Chat screen: the state `messages`
    loading,    \* Chat screen: the state `loading`
    request,    \* Chat screen: the POST /api/chat in flight (message, history)
    hits        \* rate limiter: the requests counted in the current window

\* the state of the screens of one browser
ui == <<dashboardLogs, chatMessages, loading, request>>

\* what the route handlers leave alone
outside == <<ui, hits>>

vars == <<logs, logSeq, reports, reportSeq, now, gen, resp, ui, hits>>

-----------------------------------------------------------------------------
(* Bounds of the model                                                     *)

MaxLogId == 2        \* impulse_logs_id_seq is not advanced beyond this
MaxReportId == 2     \* reports_id_seq is not advanced beyond this
MaxInWindow == 11    \* in-window rows of the stores the chat context is read from
MaxStatsLogs == 4    \* rows of the stores the statistics are computed from
MaxTextLen == 2      \* length of the completion texts enumerated token by token

-----------------------------------------------------------------------------
(* Program constants                                                       *)

WindowDays == 7      \* setDate(getDate() - 7), INTERVAL '7 days'
HoursPerDay == 24
ChatLimit == 10      \* LIMIT 10

WindowHours == WindowDays * HoursPerDay

\* the clock when the server starts: day 16, 16:00
Now0 == 16 * HoursPerDay + 16

-----------------------------------------------------------------------------
(* JavaScript values                                                       *)

Absent == "<absent>"           \* undefined / null where a string is expected
AbsentText == <<Absent>>       \* undefined / null where a text is expected
NoDate == -1                   \* undefined / null where a timestamp is expected

WS == " "

IsAbsent(t) == t = AbsentText

RECURSIVE TrimStart(_)
TrimStart(t) ==
    IF t = <<>> THEN <<>>
    ELSE IF Head(t) = WS THEN TrimStart(Tail(t)) ELSE t

RECURSIVE TrimEnd(_)
TrimEnd(t) ==
    IF t = <<>> THEN <<>>
    ELSE IF t[Len(t)] = WS THEN TrimEnd(SubSeq(t, 1, Len(t) - 1)) ELSE t

\* String.prototype.trim
Trim(t) == TrimEnd(TrimStart(t))

\* variant: the text is not trimmed before the test
BlankUntrimmed(t) == IsAbsent(t) \/ t = <<>>

\* !text || text.trim() === ''
Blank(t) == IsAbsent(t) \/ t = <<>> \/ Trim(t) = <<>>

\* text || dflt
OrElse(t, dflt) == IF IsAbsent(t) \/ t = <<>> THEN dflt ELSE t

\* new Date(datetime).getHours()
HourOf(d) == d % HoursPerDay

\* a timestamp stored into a DATE column
ToDate(d) == d \div HoursPerDay

-----------------------------------------------------------------------------
(* Responses                                                               *)

\* ai: what the completion service did in this request
\*     "none" (not called), "error" (call failed), "delivered"
\* sent: what the request passed to the completion service
\* n: alternates with every response, so that a step that answers a request
\*    is recognisable even when the answer equals the previous one
Respond(op, status, err, ai, sent, req, body) ==
    [n |-> 1 - resp.n, op |-> op, status |-> status, err |-> err,
     ai |-> ai, sent |-> sent, req |-> req, body |-> body, tok |-> "good"]

NoBody == <<>>

\* a response of a request that made no completion call
Response(op, status, err, ai, req, body) ==
    Respond(op, status, err, ai, NoBody, req, body)

-----------------------------------------------------------------------------
(* authenticate middleware                                                 *)

Tokens == {"none", "bad", "good"}

Routes == {"listLogs", "submitLog", "deleteLog", "clearLogs", "analyzeEmotion",
           "chat", "listReports", "getReport", "generateReport"}

\* jwt.verify succeeds
ValidToken(tok) == tok = "good"

\* a response to a request that carried the token tok
Refusal(route, status, err, tok) ==
    [Response(route, status, err, "none", tok, NoBody) EXCEPT !.tok = tok]

\* variant: the 401 is sent without `return`, and the handler of DELETE
\* /api/logs runs behind it
UnauthorizedFallsThrough(route, tok) ==
    /\ ~ValidToken(tok)
    /\ resp' = Refusal(route, 401,
                       IF tok = "none" THEN "no token" ELSE "invalid token", tok)
    /\ logs' = IF route = "clearLogs" THEN {} ELSE logs
    /\ logSeq' = IF route = "clearLogs" THEN 0 ELSE logSeq
    /\ UNCHANGED <<reports, reportSeq, now, gen>>

Unauthorized(route, tok) ==
    /\ ~ValidToken(tok)
    /\ resp' = Refusal(route, 401,
                       IF tok = "none" THEN "no token" ELSE "invalid token", tok)
    /\ UNCHANGED <<logs, logSeq, reports, reportSeq, now, gen>>

RateLimitMax == 100   \* max: 100 requests in a window of 15 minutes

\* what express.json() makes of the body of a request
BodyKinds == {"json", "malformed"}

\* A request without a valid token on its way through the middleware, in the
\* order of the app.use calls: express.json() passes a body that is not JSON
\* as an error to the error middleware, which answers 500; the rate limiter
\* answers 429 to a client that has used up its window (the counter is not
\* followed beyond the limit); then authenticate answers 401.
RequestWithoutToken(route, tok, body) ==
    /\ ~ValidToken(tok)
    /\ IF body = "malformed"
       THEN /\ resp' = Refusal(route, 500, "server error", "malformed")
            /\ hits' = hits
            /\ UNCHANGED <<logs, logSeq, reports, reportSeq, now, gen>>
       ELSE IF hits >= RateLimitMax
       THEN /\ resp' = Refusal(route, 429, "too many requests", tok)
            /\ hits' = hits
            /\ UNCHANGED <<logs, logSeq, reports, reportSeq, now, gen>>
       ELSE /\ Unauthorized(route, tok)
            /\ hits' = hits + 1
    /\ UNCHANGED ui

\* the limiter's window of 15 minutes ends
LimiterWindowEnds ==
    /\ hits > 0
    /\ hits' = 0
    /\ UNCHANGED <<logs, logSeq, reports, reportSeq, now, gen, resp, ui>>

-----------------------------------------------------------------------------
(* Log routes                                                              *)

ActedValues == {"yes", "no"}

\* variant: the table has no CHECK constraint on acted
RowAcceptedUnchecked(datetime, feeling, acted) ==
    /\ datetime # NoDate
    /\ ~IsAbsent(feeling)
    /\ acted # Absent

\* NOT NULL on the three columns, CHECK (acted IN ('yes','no'))
RowAccepted(datetime, feeling, acted) ==
    /\ datetime # NoDate
    /\ ~IsAbsent(feeling)
    /\ acted \in ActedValues

\* SELECT * FROM impulse_logs ORDER BY datetime DESC
RECURSIVE SortedDesc(_)
SortedDesc(rows) ==
    IF rows = {} THEN {<<>>}
    ELSE LET top == {r \in rows : \A q \in rows : q.datetime <= r.datetime}
         IN  UNION {{<<r>> \o s : s \in SortedDesc(rows \ {r})} : r \in top}

\* ... ORDER BY datetime
RECURSIVE SortedAsc(_)
SortedAsc(rows) ==
    IF rows = {} THEN {<<>>}
    ELSE LET low == {r \in rows : \A q \in rows : r.datetime <= q.datetime}
         IN  UNION {{<<r>> \o s : s \in SortedAsc(rows \ {r})} : r \in low}

ListLogs ==
    /\ \E rows \in SortedDesc(logs) :
          resp' = Response("listLogs", 200, "", "none", NoBody, rows)
    /\ UNCHANGED <<logs, logSeq, reports, reportSeq, now, gen>>

\* The sequence is advanced when the row's defaults are computed, before the
\* constraints are checked, so a rejected INSERT still consumes an id.
SubmitLog(datetime, feeling, acted) ==
    /\ logSeq < MaxLogId
    /\ logSeq' = logSeq + 1
    /\ LET row == [id |-> logSeq + 1, datetime |-> datetime,
                   feeling |-> feeling, acted |-> acted]
           req == [datetime |-> datetime, feeling |-> feeling, acted |-> acted]
       IN  IF RowAccepted(datetime, feeling, acted)
           THEN /\ logs' = logs \cup {row}
                /\ resp' = Response("submitLog", 201, "", "none", req, row)
           ELSE /\ logs' = logs
                /\ resp' = Response("submitLog", 500, "database error", "none",
                                    req, NoBody)
    /\ UNCHANGED <<reports, reportSeq, now, gen>>

\* req.params.id is text: DELETE ... WHERE id = $1 fails on a non-numeric id
BadId == -1

DeleteLog(id) ==
    /\ IF id = BadId
       THEN /\ logs' = logs
            /\ resp' = Response("deleteLog", 500, "database error", "none",
                                id, NoBody)
       ELSE /\ logs' = {r \in logs : r.id # id}
            /\ resp' = Response("deleteLog", 204, "", "none", id, NoBody)
    /\ UNCHANGED <<logSeq, reports, reportSeq, now, gen>>

\* TRUNCATE TABLE impulse_logs RESTART IDENTITY
ClearLogs ==
    /\ logs' = {}
    /\ logSeq' = 0
    /\ resp' = Response("clearLogs", 204, "", "none", NoBody, NoBody)
    /\ UNCHANGED <<reports, reportSeq, now, gen>>

-----------------------------------------------------------------------------
(* Completion service                                                      *)

\* openai.chat.completions.create either rejects or resolves with
\* choices[0].message.content, which may be null
AiError == [kind |-> "error", content |-> AbsentText]
AiDelivered(text) == [kind |-> "delivered", content |-> text]
NoCall == [kind |-> "none", content |-> AbsentText]     \* no call was made

-----------------------------------------------------------------------------
(* JSON.parse over token sequences                                         *)

JsonPunct == {"{", "}", "[", "]", ",", ":"}

NumLit == ("5" :> 5) @@ ("12" :> 12)

StrLit == ("\"primaryEmotion\"" :> "primaryEmotion")
       @@ ("\"intensity\"" :> "intensity")
       @@ ("\"triggers\"" :> "triggers")
       @@ ("\"copingStrategies\"" :> "copingStrategies")
       @@ ("\"sad\"" :> "sad")
       @@ ("\"work\"" :> "work")
       @@ ("\"rest\"" :> "rest")

JValue(k, s, n, keys, items) ==
    [k |-> k, s |-> s, n |-> n, keys |-> keys, items |-> items]

JNull == JValue("null", "", 0, <<>>, <<>>)
NoAnalysis == JValue("none", "", 0, <<>>, <<>>)    \* a response without analysis
JNum(n) == JValue("num", "", n, <<>>, <<>>)
JStr(s) == JValue("str", s, 0, <<>>, <<>>)
JArr(items) == JValue("arr", "", 0, <<>>, items)
JObj(keys, items) == JValue("obj", "", 0, keys, items)

ParseFail == [ok |-> FALSE, val |-> JNull, rest |-> <<>>]
ParseOk(val, rest) == [ok |-> TRUE, val |-> val, rest |-> rest]

\* obj[key] = val: a repeated key keeps its position and takes the last value
PutMember(obj, key, val) ==
    IF \E i \in 1..Len(obj.keys) : obj.keys[i] = key
    THEN LET i == CHOOSE j \in 1..Len(obj.keys) : obj.keys[j] = key
         IN  JObj(obj.keys, [obj.items EXCEPT ![i] = val])
    ELSE JObj(Append(obj.keys, key), Append(obj.items, val))

RECURSIVE ParseValue(_), ParseElements(_, _), ParseMembers(_, _)

ParseValue(ts) ==
    IF ts = <<>> THEN ParseFail
    ELSE LET h == Head(ts)
             t == Tail(ts)
         IN  IF h \in DOMAIN NumLit THEN ParseOk(JNum(NumLit[h]), t)
             ELSE IF h \in DOMAIN StrLit THEN ParseOk(JStr(StrLit[h]), t)
             ELSE IF h = "null" THEN ParseOk(JNull, t)
             ELSE IF h = "[" THEN
                 IF t # <<>> /\ Head(t) = "]"
                 THEN ParseOk(JArr(<<>>), Tail(t))
                 ELSE ParseElements(t, <<>>)
             ELSE IF h = "{" THEN
                 IF t # <<>> /\ Head(t) = "}"
                 THEN ParseOk(JObj(<<>>, <<>>), Tail(t))
                 ELSE ParseMembers(t, JObj(<<>>, <<>>))
             ELSE ParseFail

\* value ( "," value )* "]"
ParseElements(ts, items) ==
    LET v == ParseValue(ts)
    IN  IF ~v.ok \/ v.rest = <<>> THEN ParseFail
        ELSE IF Head(v.rest) = "]"
             THEN ParseOk(JArr(Append(items, v.val)), Tail(v.rest))
        ELSE IF Head(v.rest) = ","
             THEN ParseElements(Tail(v.rest), Append(items, v.val))
        ELSE ParseFail

\* string ":" value ( "," string ":" value )* "}"
ParseMembers(ts, obj) ==
    IF Len(ts) < 2 \/ Head(ts) \notin DOMAIN StrLit \/ ts[2] # ":"
    THEN ParseFail
    ELSE LET v == ParseValue(SubSeq(ts, 3, Len(ts)))
         IN  IF ~v.ok \/ v.rest = <<>> THEN ParseFail
             ELSE LET o == PutMember(obj, StrLit[Head(ts)], v.val)
                  IN  IF Head(v.rest) = "}" THEN ParseOk(o, Tail(v.rest))
                      ELSE IF Head(v.rest) = ","
                           THEN ParseMembers(Tail(v.rest), o)
                      ELSE ParseFail

\* JSON.parse: throws (ok = FALSE) unless the whole text is one JSON value
JSONParse(ts) ==
    LET v == ParseValue(ts)
    IN  IF v.ok /\ v.rest = <<>> THEN [ok |-> TRUE, val |-> v.val]
        ELSE [ok |-> FALSE, val |-> JNull]

-----------------------------------------------------------------------------
(* POST /api/analyze-emotion                                               *)

\* primaryEmotion "unknown", triggers ["cannot tell"],
\* copingStrategies ["deep breath", "seek support"]
EmotionFallback ==
    JObj(<<"primaryEmotion", "intensity", "triggers", "copingStrategies">>,
         << JStr("unknown"), JNum(5), JArr(<<JStr("cannot tell")>>),
            JArr(<<JStr("deep breath"), JStr("seek support")>>) >>)

\* variant: a failed completion call is answered like a parse failure
AnalyzeEmotionSwallowsFailure(feeling, ai) ==
    /\ LET req == [feeling |-> feeling, ai |-> ai]
       IN  IF Blank(feeling)
           THEN resp' = Response("analyzeEmotion", 400, "feeling required",
                                 "none", req, NoAnalysis)
           ELSE LET parsed == IF ai.kind = "error" THEN [ok |-> FALSE, val |-> JNull]
                              ELSE JSONParse(OrElse(ai.content, <<"{", "}">>))
                    analysis == IF parsed.ok THEN parsed.val
                                ELSE EmotionFallback
                IN  resp' = Respond("analyzeEmotion", 200, "", ai.kind,
                                    feeling, req, analysis)
    /\ UNCHANGED <<logs, logSeq, reports, reportSeq, now, gen>>

AnalyzeEmotion(feeling, ai) ==
    /\ LET req == [feeling |-> feeling, ai |-> ai]
       IN  IF Blank(feeling)
           THEN resp' = Response("analyzeEmotion", 400, "feeling required",
                                 "none", req, NoAnalysis)
           ELSE IF ai.kind = "error"
           THEN resp' = Respond("analyzeEmotion", 500,
                                "emotion analysis unavailable", "error",
                                feeling, req, NoAnalysis)
           ELSE LET parsed == JSONParse(OrElse(ai.content, <<"{", "}">>))
                    analysis == IF parsed.ok THEN parsed.val
                                ELSE EmotionFallback
                IN  resp' = Respond("analyzeEmotion", 200, "", "delivered",
                                    feeling, req, analysis)
    /\ UNCHANGED <<logs, logSeq, reports, reportSeq, now, gen>>

-----------------------------------------------------------------------------
(* POST /api/chat                                                          *)

\* WHERE datetime >= NOW() - INTERVAL '7 days'
InChatWindow(r) == r.datetime >= now - WindowHours

\* LIMIT n
Limit(rows, n) == SubSeq(rows, 1, IF Len(rows) < n THEN Len(rows) ELSE n)

\* `${log.datetime}: ${log.feeling} (acted: ${log.acted === 'yes' ? Y : N})`
ContextLine(r) ==
    [datetime |-> r.datetime, feeling |-> r.feeling,
     label |-> IF r.acted = "yes" THEN "acted-yes" ELSE "acted-no"]

ChatContexts ==
    {[i \in 1..Len(Limit(rows, ChatLimit)) |-> ContextLine(rows[i])] :
        rows \in SortedDesc({r \in logs : InChatWindow(r)})}

Persona == <<"persona">>
Apology == <<"apology">>

Message(role, content, context) ==
    [role |-> role, content |-> content, context |-> context]

\* history && Array.isArray(history)
NoHistory == [isArray |-> FALSE, turns |-> <<>>]
History(turns) == [isArray |-> TRUE, turns |-> turns]

ChatMessages(context, history, message) ==
    <<Message("system", Persona, context)>>
        \o (IF history.isArray THEN history.turns ELSE <<>>)
        \o <<Message("user", message, <<>>)>>

Chat(message, history, ai) ==
    /\ LET req == [message |-> message, history |-> history, ai |-> ai]
       IN  IF Blank(message)
           THEN resp' = Response("chat", 400, "message required", "none",
                                 req, NoBody)
           ELSE \E context \in ChatContexts :
                  LET messages == ChatMessages(context, history, message)
                  IN  IF ai.kind = "error"
                      THEN resp' = Respond("chat", 500, "chat unavailable",
                                           "error", messages, req, NoBody)
                      ELSE resp' = Respond("chat", 200, "", "delivered",
                                           messages, req,
                                           [reply |-> OrElse(ai.content, Apology)])
    /\ UNCHANGED <<logs, logSeq, reports, reportSeq, now, gen>>

-----------------------------------------------------------------------------
(* Report routes                                                           *)

\* ORDER BY created_at DESC
RECURSIVE ByCreatedDesc(_)
ByCreatedDesc(rows) ==
    IF rows = {} THEN {<<>>}
    ELSE LET top == {r \in rows : \A q \in rows : q.created_at <= r.created_at}
         IN  UNION {{<<r>> \o s : s \in ByCreatedDesc(rows \ {r})} : r \in top}

ListReports ==
    /\ \E rows \in ByCreatedDesc(reports) :
          resp' = Response("listReports", 200, "", "none", NoBody, rows)
    /\ UNCHANGED <<logs, logSeq, reports, reportSeq, now, gen>>

\* variant: the WHERE clause is missing, any row answers
GetReportAnyRow(id) ==
    /\ IF id = BadId
       THEN resp' = Response("getReport", 500, "database error", "none",
                             id, NoBody)
       ELSE IF reports = {}
       THEN resp' = Response("getReport", 404, "report not found", "none",
                             id, NoBody)
       ELSE \E r \in reports :
              resp' = Response("getReport", 200, "", "none", id, r)
    /\ UNCHANGED <<logs, logSeq, reports, reportSeq, now, gen>>

GetReport(id) ==
    /\ IF id = BadId
       THEN resp' = Response("getReport", 500, "database error", "none",
                             id, NoBody)
       ELSE IF {r \in reports : r.id = id} = {}
       THEN resp' = Response("getReport", 404, "report not found", "none",
                             id, NoBody)
       ELSE \E r \in {q \in reports : q.id = id} :
              resp' = Response("getReport", 200, "", "none", id, r)
    /\ UNCHANGED <<logs, logSeq, reports, reportSeq, now, gen>>

-----------------------------------------------------------------------------
(* POST /api/reports/generate                                              *)

\* variant: the window has no upper end
InReportWindowOpenEnded(r, weekStart, weekEnd) == weekStart <= r.datetime

\* variant: the window has no lower end
InReportWindowNoLowerEnd(r, weekStart, weekEnd) == r.datetime <= weekEnd

\* WHERE datetime BETWEEN $1 AND $2
InReportWindow(r, weekStart, weekEnd) ==
    weekStart <= r.datetime /\ r.datetime <= weekEnd

\* Math.round(x) for x = num / den >= 0: the nearest integer, halves up
MathRound(num, den) == (2 * num + den) \div (2 * den)

\* Math.max(...arr)
MathMax(arr) ==
    CHOOSE m \in {arr[i] : i \in DOMAIN arr} : \A i \in DOMAIN arr : arr[i] <= m

\* arr.indexOf(v) scanning from index i; arrays are indexed from 0
RECURSIVE IndexFrom(_, _, _)
IndexFrom(arr, v, i) ==
    IF i \notin DOMAIN arr THEN -1
    ELSE IF arr[i] = v THEN i
    ELSE IndexFrom(arr, v, i + 1)

\* variant: arr.lastIndexOf(v)
LastIndexOf(arr, v) ==
    IF \E i \in DOMAIN arr : arr[i] = v
    THEN CHOOSE i \in DOMAIN arr :
            arr[i] = v /\ \A j \in DOMAIN arr : arr[j] = v => j <= i
    ELSE -1

IndexOf(arr, v) == IndexFrom(arr, v, 0)

\* new Array(24).fill(0), then hourlyStats[hour]++ for every log
HourlyStats(rows) ==
    [h \in 0..(HoursPerDay - 1) |->
        Cardinality({i \in 1..Len(rows) : HourOf(rows[i].datetime) = h})]

PeakHour(rows) == IndexOf(HourlyStats(rows), MathMax(HourlyStats(rows)))

\* variant: counts the impulses that were resisted
ActedCountResisted(rows) ==
    Cardinality({i \in 1..Len(rows) : rows[i].acted = "no"})

\* logs.filter(log => log.acted === 'yes').length
ActedCount(rows) ==
    Cardinality({i \in 1..Len(rows) : rows[i].acted = "yes"})

\* variant: the rate per thousand
ResistanceRatePerMille(resisted, total) == MathRound(resisted * 1000, total)

\* Math.round((resistedImpulses / totalImpulses) * 100)
ResistanceRate(resisted, total) == MathRound(resisted * 100, total)

\* the upper-case letters of the alphabet in use and their lower-case forms
Lower == ("A" :> "a") @@ ("B" :> "b")

\* feeling.toLowerCase()
ToLowerCase(t) ==
    [i \in 1..Len(t) |-> IF t[i] \in DOMAIN Lower THEN Lower[t[i]] ELSE t[i]]

\* the first index from i on that holds no whitespace, Len(t) + 1 if none
RECURSIVE SkipWS(_, _)
SkipWS(t, i) ==
    IF i > Len(t) \/ t[i] # WS THEN i ELSE SkipWS(t, i + 1)

\* split(/\s+/) from index i on, cur being the fragment under construction:
\* every run of whitespace ends a fragment, the end of the text ends the
\* last one, and a fragment may be empty
RECURSIVE SplitFrom(_, _, _, _)
SplitFrom(t, i, cur, out) ==
    IF i > Len(t) THEN Append(out, cur)
    ELSE IF t[i] = WS THEN SplitFrom(t, SkipWS(t, i), <<>>, Append(out, cur))
    ELSE SplitFrom(t, i + 1, Append(cur, t[i]), out)

Split(t) == SplitFrom(t, 1, <<>>, <<>>)

\* emotionWords: the keys in the order of their first assignment and the
\* count of each
NoWords == [keys |-> <<>>, count |-> <<>>]

\* emotionWords[word] = (emotionWords[word] || 0) + 1
CountWord(ew, word) ==
    IF \E k \in 1..Len(ew.keys) : ew.keys[k] = word
    THEN LET k == CHOOSE k \in 1..Len(ew.keys) : ew.keys[k] = word
         IN  [ew EXCEPT !.count[k] = @ + 1]
    ELSE [keys |-> Append(ew.keys, word), count |-> Append(ew.count, 1)]

\* words.forEach(word => ...), from the i-th word on
RECURSIVE CountWords(_, _, _)
CountWords(ew, words, i) ==
    IF i > Len(words) THEN ew
    ELSE CountWords(CountWord(ew, words[i]), words, i + 1)

\* logs.forEach(log => ...), from the i-th row on
RECURSIVE EmotionWords(_, _, _)
EmotionWords(ew, rows, i) ==
    IF i > Len(rows) THEN ew
    ELSE EmotionWords(CountWords(ew, Split(ToLowerCase(rows[i].feeling)), 1),
                      rows, i + 1)

Digits ==
    ("0" :> 0) @@ ("1" :> 1) @@ ("2" :> 2) @@ ("3" :> 3) @@ ("4" :> 4) @@
    ("5" :> 5) @@ ("6" :> 6) @@ ("7" :> 7) @@ ("8" :> 8) @@ ("9" :> 9)

\* a property key that is a canonical array index: decimal digits with no
\* leading zero
IsIndexKey(word) ==
    /\ Len(word) >= 1
    /\ \A i \in 1..Len(word) : word[i] \in DOMAIN Digits
    /\ Len(word) = 1 \/ word[1] # "0"

RECURSIVE IndexValue(_)
IndexValue(word) ==
    IF word = <<>> THEN 0
    ELSE 10 * IndexValue(SubSeq(word, 1, Len(word) - 1)) + Digits[word[Len(word)]]

\* the positions of ew.keys in property order: the index keys by ascending
\* value, then the other keys in the order of their creation
RECURSIVE IndexKeysAscending(_, _)
IndexKeysAscending(ew, left) ==
    IF left = {} THEN <<>>
    ELSE LET k == CHOOSE k \in left :
                    \A j \in left : IndexValue(ew.keys[k]) <= IndexValue(ew.keys[j])
         IN  <<k>> \o IndexKeysAscending(ew, left \ {k})

RECURSIVE OtherKeys(_, _)
OtherKeys(ew, k) ==
    IF k > Len(ew.keys) THEN <<>>
    ELSE (IF IsIndexKey(ew.keys[k]) THEN <<>> ELSE <<k>>) \o OtherKeys(ew, k + 1)

\* Object.entries(emotionWords)
Entries(ew) ==
    LET order == IndexKeysAscending(ew, {k \in 1..Len(ew.keys) : IsIndexKey(ew.keys[k])})
                     \o OtherKeys(ew, 1)
    IN  [i \in 1..Len(order) |-> <<ew.keys[order[i]], ew.count[order[i]]>>]

\* one step of a stable sort by (a, b) => b[1] - a[1]: e goes behind every
\* entry whose count is at least its own
InsertByCount(sorted, e) ==
    LET ahead == Cardinality({i \in 1..Len(sorted) : sorted[i][2] >= e[2]})
    IN  SubSeq(sorted, 1, ahead) \o <<e>> \o SubSeq(sorted, ahead + 1, Len(sorted))

\* entries.sort((a, b) => b[1] - a[1]), of the first n entries
RECURSIVE SortByCount(_, _)
SortByCount(entries, n) ==
    IF n = 0 THEN <<>>
    ELSE InsertByCount(SortByCount(entries, n - 1), entries[n])

\* .slice(0, n)
Slice(s, n) == SubSeq(s, 1, IF Len(s) < n THEN Len(s) ELSE n)

TopCount == 3

\* Object.entries(emotionWords).sort(...).slice(0, 3).map(([word]) => word)
TopEmotions(rows) ==
    LET entries == Entries(EmotionWords(NoWords, rows, 1))
        top == Slice(SortByCount(entries, Len(entries)), TopCount)
    IN  [i \in 1..Len(top) |-> top[i][1]]

Summary(rows) ==
    LET totalImpulses == Len(rows)
        actedImpulses == ActedCount(rows)
        resistedImpulses == totalImpulses - actedImpulses
    IN  [totalImpulses |-> totalImpulses,
         actedImpulses |-> actedImpulses,
         resistedImpulses |-> resistedImpulses,
         resistanceRate |-> ResistanceRate(resistedImpulses, totalImpulses),
         peakHour |-> PeakHour(rows),
         topEmotions |-> TopEmotions(rows)]

NoSummary ==
    [totalImpulses |-> 0, actedImpulses |-> 0, resistedImpulses |-> 0,
     resistanceRate |-> 0, peakHour |-> 0, topEmotions |-> <<>>]

Idle == [pc |-> "idle", weekStart |-> 0, weekEnd |-> 0, summary |-> NoSummary]

\* the requests to this route that can be in flight together
Slots == DOMAIN gen

Awaiting == {i \in Slots : gen[i].pc = "await"}

Placeholder == <<"no insights">>

\* variant: content ?? placeholder
InsightsNullish(content) == IF IsAbsent(content) THEN Placeholder ELSE content

\* aiResponse.choices[0].message.content || placeholder
Insights(content) == OrElse(content, Placeholder)

\* what the request passes to the completion service
ReportContext(g) ==
    [weekStart |-> ToDate(g.weekStart), weekEnd |-> ToDate(g.weekEnd),
     summary |-> g.summary]

\* variant: one report per week, a later one replaces the earlier
InsertReportOncePerWeek(row) ==
    {r \in reports : r.week_start # row.week_start \/ r.week_end # row.week_end}
        \cup {row}

\* INSERT INTO reports (week_start, week_end, content) VALUES ($1, $2, $3)
InsertReport(row) == reports \cup {row}

\* variant: an empty window is reported on like any other
GenerateReadAnyWindow(i) ==
    /\ gen[i].pc = "idle"
    /\ reportSeq + Cardinality(Awaiting) < MaxReportId
    /\ LET weekEnd == now
           weekStart == now - WindowHours
       IN  \E rows \in SortedAsc({r \in logs :
                                    InReportWindow(r, weekStart, weekEnd)}) :
             /\ gen' = [gen EXCEPT ![i] =
                          [pc |-> "await", weekStart |-> weekStart,
                           weekEnd |-> weekEnd,
                           summary |-> IF Len(rows) = 0 THEN NoSummary
                                       ELSE Summary(rows)]]
             /\ resp' = resp
    /\ UNCHANGED <<logs, logSeq, reports, reportSeq, now>>

\* from the start of the handler to the completion call (or the 400)
GenerateRead(i) ==
    /\ gen[i].pc = "idle"
    /\ reportSeq + Cardinality(Awaiting) < MaxReportId
    /\ LET weekEnd == now
           weekStart == now - WindowHours
       IN  \E rows \in SortedAsc({r \in logs :
                                    InReportWindow(r, weekStart, weekEnd)}) :
             IF Len(rows) = 0
             THEN /\ resp' = Response("generateReport", 400, "not enough data",
                                      "none", NoCall, NoBody)
                  /\ gen' = gen
             ELSE /\ gen' = [gen EXCEPT ![i] =
                               [pc |-> "await", weekStart |-> weekStart,
                                weekEnd |-> weekEnd, summary |-> Summary(rows)]]
                  /\ resp' = resp
    /\ UNCHANGED <<logs, logSeq, reports, reportSeq, now>>

\* variant: a failed completion call is answered with 500 after the report
\* was written with the placeholder
GenerateCompletePersistsAnyway(i, ai) ==
    /\ gen[i].pc = "await"
    /\ gen' = [gen EXCEPT ![i] = Idle]
    /\ LET row == [id |-> reportSeq + 1,
                   week_start |-> ToDate(gen[i].weekStart),
                   week_end |-> ToDate(gen[i].weekEnd),
                   content |-> IF ai.kind = "error" THEN Placeholder
                               ELSE Insights(ai.content),
                   created_at |-> now]
       IN  /\ reports' = reports \cup {row}
           /\ reportSeq' = reportSeq + 1
           /\ IF ai.kind = "error"
              THEN resp' = Respond("generateReport", 500, "report failed",
                                   "error", ReportContext(gen[i]), ai, NoBody)
              ELSE resp' = Respond("generateReport", 201, "", "delivered",
                                   ReportContext(gen[i]), ai, row)
    /\ UNCHANGED <<logs, logSeq, now>>

\* from the completion call's outcome to the response
GenerateComplete(i, ai) ==
    /\ gen[i].pc = "await"
    /\ gen' = [gen EXCEPT ![i] = Idle]
    /\ IF ai.kind = "error"
       THEN /\ resp' = Respond("generateReport", 500, "report failed", "error",
                               ReportContext(gen[i]), ai, NoBody)
            /\ UNCHANGED <<reports, reportSeq>>
       ELSE LET row == [id |-> reportSeq + 1,
                        week_start |-> ToDate(gen[i].weekStart),
                        week_end |-> ToDate(gen[i].weekEnd),
                        content |-> Insights(ai.content),
                        created_at |-> now]
            IN  /\ reports' = InsertReport(row)
                /\ reportSeq' = reportSeq + 1
                /\ resp' = Respond("generateReport", 201, "", "delivered",
                                   ReportContext(gen[i]), ai, row)
    /\ UNCHANGED <<logs, logSeq, now>>

-----------------------------------------------------------------------------
(* The clock                                                               *)

\* the clock is observed at whole hours, up to the hour after the start
Tick ==
    /\ now < Now0 + 1
    /\ now' = now + 1
    /\ UNCHANGED <<logs, logSeq, reports, reportSeq, gen, resp>>

-----------------------------------------------------------------------------
(* Dashboard screen                                                        *)

\* fetchLogs: GET /api/logs, then setLogs(response.data)
FetchLogs ==
    /\ ListLogs
    /\ dashboardLogs' = resp'.body
    /\ UNCHANGED <<chatMessages, loading, request, hits>>

\* the ids of the rows on the screen, each with its delete button
ShownIds == {dashboardLogs[k].id : k \in 1..Len(dashboardLogs)}

\* handleDelete(log.id), up to the answer of DELETE /api/logs/:id; the
\* fetchLogs it goes on with is a request of its own
HandleDelete(id) ==
    /\ id \in ShownIds
    /\ DeleteLog(id)
    /\ UNCHANGED outside

-----------------------------------------------------------------------------
(* Chat screen                                                             *)

MaxMessages == 3     \* nothing is sent from a longer message list

HistoryLimit == 10   \* .slice(-10)

\* a message of the list; its timestamp is not modelled
ChatMessage(sender, text) == [sender |-> sender, text |-> text]

Greeting == ChatMessage("ai", <<"greeting">>)

\* no request in flight
NoRequest == [message |-> <<>>, history |-> NoHistory]

\* messages.filter(...).slice(-10).map(msg => ({role, content}))
HistoryForAI(msgs) ==
    LET kept == SelectSeq(msgs, LAMBDA m : m.sender = "user" \/ m.sender = "ai")
        from == IF Len(kept) > HistoryLimit THEN Len(kept) - HistoryLimit + 1 ELSE 1
        last == SubSeq(kept, from, Len(kept))
    IN  History([k \in 1..Len(last) |->
                    Message(IF last[k].sender = "user" THEN "user" ELSE "assistant",
                            last[k].text, <<>>)])

\* handleSendMessage up to the POST; the input field and the send button are
\* disabled while loading
HandleSendMessage(input) ==
    /\ ~loading
    /\ ~Blank(input)
    /\ Len(chatMessages) < MaxMessages
    /\ chatMessages' = Append(chatMessages, ChatMessage("user", input))
    /\ loading' = TRUE
    /\ request' = [message |-> input, history |-> HistoryForAI(chatMessages)]
    /\ UNCHANGED <<logs, logSeq, reports, reportSeq, now, gen, resp,
                   dashboardLogs, hits>>

\* the server's answer to the POST and the rest of handleSendMessage: the
\* reply is appended, or on an error the last message is removed
HandleSendMessageResponse(ai) ==
    /\ loading
    /\ Chat(request.message, request.history, ai)
    /\ chatMessages' = IF resp'.status = 200
                   THEN Append(chatMessages, ChatMessage("ai", resp'.body.reply))
                   ELSE SubSeq(chatMessages, 1, Len(chatMessages) - 1)
    /\ loading' = FALSE
    /\ request' = NoRequest
    /\ UNCHANGED <<dashboardLogs, hits>>

\* clearChat; its button stays enabled while loading
ClearChat ==
    /\ chatMessages' = <<Greeting>>
    /\ UNCHANGED <<logs, logSeq, reports, reportSeq, now, gen, resp,
                   dashboardLogs, loading, request, hits>>

InitScreens ==
    /\ dashboardLogs = <<>>
    /\ chatMessages = <<Greeting>>
    /\ loading = FALSE
    /\ request = NoRequest

-----------------------------------------------------------------------------
(* The server with every route, on small inputs                            *)

NoResponse ==
    [n |-> 0, op |-> "none", status |-> 0, err |-> "", ai |-> "none",
     sent |-> NoBody, req |-> NoBody, body |-> NoBody, tok |-> "good"]

InitWith(slots) ==
    /\ logs = {}
    /\ logSeq = 0
    /\ reports = {}
    /\ reportSeq = 0
    /\ now = Now0
    /\ gen = [i \in slots |-> Idle]
    /\ resp = NoResponse
    /\ InitScreens
    /\ hits = 0

Init == InitWith({"g1"})

\* the bodies clients post to /api/logs
LogBodies ==
    { [datetime |-> Now0 - 8, feeling |-> <<"a">>, acted |-> "yes"],
      [datetime |-> Now0 - WindowHours, feeling |-> <<"b">>, acted |-> "no"],
      [datetime |-> Now0 - WindowHours - 1, feeling |-> <<"a">>, acted |-> "no"],
      [datetime |-> Now0 + 1, feeling |-> <<"a">>, acted |-> "yes"],
      [datetime |-> Now0 - 8, feeling |-> <<>>, acted |-> "no"],
      [datetime |-> Now0 - 8, feeling |-> <<"a">>, acted |-> "maybe"],
      [datetime |-> Now0 - 8, feeling |-> AbsentText, acted |-> "yes"],
      [datetime |-> NoDate, feeling |-> <<"a">>, acted |-> Absent] }

LogIds == 1..MaxLogId \cup {BadId}
ReportIds == 1..MaxReportId \cup {BadId}

Narratives == {AbsentText, <<>>, <<"narrative">>}
NarrativeOutcomes == {AiError} \cup {AiDelivered(t) : t \in Narratives}

Next ==
    \/ \E route \in Routes, tok \in Tokens : Unauthorized(route, tok) /\ UNCHANGED outside
    \/ ListLogs /\ UNCHANGED outside
    \/ \E b \in LogBodies : SubmitLog(b.datetime, b.feeling, b.acted) /\ UNCHANGED outside
    \/ \E id \in LogIds : DeleteLog(id) /\ UNCHANGED outside
    \/ ClearLogs /\ UNCHANGED outside
    \/ \E f \in {<<>>, <<"a">>} : AnalyzeEmotion(f, AiError) /\ UNCHANGED outside
    \/ \E m \in {<<>>, <<"a">>} : Chat(m, NoHistory, AiError) /\ UNCHANGED outside
    \/ ListReports /\ UNCHANGED outside
    \/ \E id \in ReportIds : GetReport(id) /\ UNCHANGED outside
    \/ \E i \in Slots : GenerateRead(i) /\ UNCHANGED outside
    \/ \E i \in Slots, ai \in NarrativeOutcomes : GenerateComplete(i, ai) /\ UNCHANGED outside
    \/ Tick /\ UNCHANGED outside

Spec == Init /\ [][Next]_vars

-----------------------------------------------------------------------------
(* Report generation interleaved with the routes that write the log store  *)

ValidLogBodies ==
    {b \in LogBodies : RowAccepted(b.datetime, b.feeling, b.acted)}

NextReport ==
    \/ \E b \in ValidLogBodies : SubmitLog(b.datetime, b.feeling, b.acted) /\ UNCHANGED outside
    \/ \E id \in 1..MaxLogId : DeleteLog(id) /\ UNCHANGED outside
    \/ ClearLogs /\ UNCHANGED outside
    \/ \E i \in Slots : GenerateRead(i) /\ UNCHANGED outside
    \/ \E i \in Slots, ai \in NarrativeOutcomes : GenerateComplete(i, ai) /\ UNCHANGED outside

SpecReport == InitWith({"g1"}) /\ [][NextReport]_vars

\* the same with two generate requests in flight together
SpecConcurrent == InitWith({"g1", "g2"}) /\ [][NextReport]_vars

-----------------------------------------------------------------------------
(* The log routes alone                                                    *)

NextLogs ==
    \/ ListLogs /\ UNCHANGED outside
    \/ \E b \in LogBodies : SubmitLog(b.datetime, b.feeling, b.acted) /\ UNCHANGED outside
    \/ \E id \in LogIds : DeleteLog(id) /\ UNCHANGED outside
    \/ ClearLogs /\ UNCHANGED outside

SpecLogs == InitWith({"g1"}) /\ [][NextLogs]_vars

-----------------------------------------------------------------------------
(* Emotion analysis over the texts the completion service can deliver      *)

\* "sorry" stands for any word that is not JSON
JsonTokens == {"{", "}", "[", "]", "5", "\"sad\"", "sorry"}

RECURSIVE TokenTexts(_)
TokenTexts(n) ==
    IF n = 0 THEN {<<>>}
    ELSE LET shorter == TokenTexts(n - 1)
         IN  shorter \cup {Append(t, k) : t \in shorter, k \in JsonTokens}

\* {"primaryEmotion":"sad","intensity":5,"triggers":["work"],
\*  "copingStrategies":["rest"]}
WellFormedAnalysis ==
    << "{", "\"primaryEmotion\"", ":", "\"sad\"", ",",
       "\"intensity\"", ":", "5", ",",
       "\"triggers\"", ":", "[", "\"work\"", "]", ",",
       "\"copingStrategies\"", ":", "[", "\"rest\"", "]", "}" >>

AnalysisTexts ==
    TokenTexts(MaxTextLen)
        \cup { AbsentText,
               <<"null">>,
               WellFormedAnalysis,
               \* cut off before the closing brace
               SubSeq(WellFormedAnalysis, 1, Len(WellFormedAnalysis) - 1),
               \* prose around the object
               <<"sorry">> \o WellFormedAnalysis,
               \* an object of another shape
               <<"{", "\"intensity\"", ":", "12", "}">>,
               <<"{", "\"triggers\"", ":", "\"work\"", "}">> }

AnalysisOutcomes == {AiError} \cup {AiDelivered(t) : t \in AnalysisTexts}

AnalysisFeelings == {AbsentText, <<>>, <<WS, WS>>, <<"a">>, <<WS, "a", WS>>}

NextAnalyze ==
    \E f \in AnalysisFeelings, ai \in AnalysisOutcomes : AnalyzeEmotion(f, ai) /\ UNCHANGED outside

SpecAnalyze == InitWith({"g1"}) /\ [][NextAnalyze]_vars

-----------------------------------------------------------------------------
(* Stores drawn from a pool of rows, as left by earlier submissions and     *)
(* deletions                                                               *)

\* The rows of a pool were submitted newest first, so the ids run against
\* the datetimes; the rows missing from a store were deleted one by one.
PoolRow(times, datetime, acted) ==
    [id |-> Cardinality({t \in times : t >= datetime}), datetime |-> datetime,
     feeling |-> IF datetime % 2 = 0 THEN <<"a">> ELSE <<"b">>, acted |-> acted]

InitStore(store, seq, slots) ==
    /\ logs = store
    /\ logSeq = seq
    /\ reports = {}
    /\ reportSeq = 0
    /\ now = Now0
    /\ gen = [i \in slots |-> Idle]
    /\ resp = NoResponse
    /\ InitScreens
    /\ hits = 0

\* chat: MaxInWindow rows of the last hours, one row older than the window
\* and one dated in the future; the ids run against the datetimes
ChatTimes ==
    {Now0 - k : k \in 1..MaxInWindow} \cup {Now0 - WindowHours - 1, Now0 + 1}

\* the stores that hold all but at most two, or at most two, of the rows of
\* the last hours
ChatTimeSets ==
    {ts \in SUBSET ChatTimes :
        LET recent == Cardinality({d \in ts : Now0 - d \in 1..MaxInWindow})
        IN  recent <= 2 \/ recent >= MaxInWindow - 2}

ChatStores ==
    { {PoolRow(ChatTimes, d, IF d % 2 = 0 THEN "yes" ELSE "no") : d \in ts} :
        ts \in ChatTimeSets }

ChatHistories ==
    { NoHistory,
      History(<< Message("user", <<"q">>, <<>>),
                 Message("assistant", <<"r">>, <<>>) >>),
      History(<< Message("system", <<"s">>, <<>>) >>) }

NextChat ==
    \E m \in {<<>>, <<"h", "i">>}, h \in ChatHistories,
       ai \in {AiError, AiDelivered(AbsentText), AiDelivered(<<"r">>)} :
        Chat(m, h, ai) /\ UNCHANGED outside

SpecChat == (\E store \in ChatStores :
                InitStore(store, Cardinality(ChatTimes), {"g1"}))
                /\ [][NextChat]_vars

\* statistics: rows eight hours apart, the two edges of the window, one row
\* older than the window and one dated in the future
StatsTimes ==
    {Now0 - 8 * k : k \in 0..(MaxStatsLogs - 1)}
        \cup {Now0 - WindowHours, Now0 - WindowHours - 1, Now0 + 1}

StatsStores ==
    { {PoolRow(StatsTimes, d, acted[d]) : d \in DOMAIN acted} :
        acted \in UNION {[ts -> ActedValues] : ts \in SUBSET StatsTimes} }

NextStats ==
    \/ \E i \in Slots : GenerateRead(i) /\ UNCHANGED outside
    \/ \E i \in Slots, ai \in {AiError, AiDelivered(<<"narrative">>)} :
          GenerateComplete(i, ai) /\ UNCHANGED outside

SpecStats == (\E store \in StatsStores :
                 InitStore(store, Cardinality(StatsTimes), {"g1"}))
                 /\ [][NextStats]_vars

\* word statistics: up to MaxWordLogs rows inside the window, an hour apart,
\* the k-th submitted k hours ago
MaxWordLogs == 3

WordFeelings ==
    { <<>>, <<"a">>, <<"A", " ", "b">>, <<" ", "a">>, <<"b", " ">>,
      <<"a", " ", " ", "c">>, <<"c", " ", "d", " ", "b">>, <<"7", " ", "d">>,
      <<"d", " ", "1", "0", " ", "7">> }

WordStores ==
    { {[id |-> k, datetime |-> Now0 - k, feeling |-> f[k], acted |-> "no"] :
          k \in DOMAIN f} :
        f \in UNION {[1..n -> WordFeelings] : n \in 0..MaxWordLogs} }

NextWords ==
    \/ \E i \in Slots : GenerateRead(i) /\ UNCHANGED outside
    \/ \E i \in Slots : GenerateComplete(i, AiError) /\ UNCHANGED outside

SpecWords == (\E store \in WordStores :
                 InitStore(store, Cardinality(store), {"g1"}))
                 /\ [][NextWords]_vars

-----------------------------------------------------------------------------
(* The report routes, two generate requests in flight together, over a log *)
(* store that starts with one row of the window                            *)

NextArchive ==
    \/ SubmitLog(Now0 - 8, <<"a">>, "yes") /\ UNCHANGED outside
    \/ ClearLogs /\ UNCHANGED outside
    \/ ListReports /\ UNCHANGED outside
    \/ \E id \in ReportIds : GetReport(id) /\ UNCHANGED outside
    \/ \E i \in Slots : GenerateRead(i) /\ UNCHANGED outside
    \/ \E i \in Slots, ai \in NarrativeOutcomes : GenerateComplete(i, ai) /\ UNCHANGED outside
    \/ Tick /\ UNCHANGED outside

SpecArchive ==
    InitStore({PoolRow({Now0 - 8}, Now0 - 8, "no")}, 1, {"g1", "g2"})
        /\ [][NextArchive]_vars

-----------------------------------------------------------------------------
(* The routes that address a row by its id, with the routes that create    *)
(* the rows                                                                *)

NextById ==
    \/ SubmitLog(Now0 - 8, <<"a">>, "yes") /\ UNCHANGED outside
    \/ \E id \in LogIds : DeleteLog(id) /\ UNCHANGED outside
    \/ \E id \in ReportIds : GetReport(id) /\ UNCHANGED outside
    \/ \E i \in Slots : GenerateRead(i) /\ UNCHANGED outside
    \/ \E i \in Slots : GenerateComplete(i, AiDelivered(<<"narrative">>)) /\ UNCHANGED outside

SpecById == InitWith({"g1"}) /\ [][NextById]_vars

-----------------------------------------------------------------------------
(* A generate request waiting for the completion service. Time passes and  *)
(* the server answers the other requests; whether and when the service     *)
(* answers is the service's choice, so no fairness is stated for           *)
(* GenerateComplete, and the handler has no step of its own that ends the  *)
(* wait.                                                                   *)

NextPending ==
    \/ SubmitLog(Now0 - 8, <<"a">>, "yes") /\ UNCHANGED outside
    \/ ListLogs /\ UNCHANGED outside
    \/ ClearLogs /\ UNCHANGED outside
    \/ \E i \in Slots : GenerateRead(i) /\ UNCHANGED outside
    \/ \E i \in Slots, ai \in {AiError, AiDelivered(<<"narrative">>)} :
          GenerateComplete(i, ai) /\ UNCHANGED outside
    \/ Tick /\ UNCHANGED outside

SpecPending ==
    /\ InitStore({PoolRow({Now0 - 8}, Now0 - 8, "no")}, 1, {"g1"})
    /\ [][NextPending]_vars
    /\ WF_vars(Tick /\ UNCHANGED outside)
    /\ WF_vars(ListLogs /\ UNCHANGED outside)

-----------------------------------------------------------------------------
(* The Dashboard of one browser next to log requests of other clients      *)

DashboardBodies ==
    { [datetime |-> Now0 - 8, feeling |-> <<"a">>, acted |-> "yes"],
      [datetime |-> Now0 - 16, feeling |-> <<"b">>, acted |-> "no"] }

NextDashboard ==
    \/ FetchLogs
    \/ \E id \in 1..MaxLogId : HandleDelete(id)
    \/ \E b \in DashboardBodies : SubmitLog(b.datetime, b.feeling, b.acted) /\ UNCHANGED outside
    \/ ClearLogs /\ UNCHANGED outside

SpecDashboard == InitWith({"g1"}) /\ [][NextDashboard]_vars

-----------------------------------------------------------------------------
(* The Chat screen of one browser                                          *)

NextChatScreen ==
    \/ \E input \in {<<" ">>, <<"h", "i">>} : HandleSendMessage(input)
    \/ \E ai \in {AiError, AiDelivered(AbsentText), AiDelivered(<<"r">>)} :
          HandleSendMessageResponse(ai)
    \/ ClearChat

SpecChatScreen == InitWith({"g1"}) /\ [][NextChatScreen]_vars

-----------------------------------------------------------------------------
(* Requests without a valid token, next to a client that lists the logs,   *)
(* over a store that holds one log                                         *)

NextAuth ==
    \/ \E route \in Routes, tok \in Tokens, body \in BodyKinds :
          RequestWithoutToken(route, tok, body)
    \/ hits < RateLimitMax /\ ListLogs /\ hits' = hits + 1 /\ UNCHANGED ui
    \/ LimiterWindowEnds

SpecAuth ==
    InitStore({PoolRow({Now0 - 8}, Now0 - 8, "no")}, 1, {"g1"})
        /\ [][NextAuth]_vars

-----------------------------------------------------------------------------
(* Properties                                                              *)

\* the logs dated in [now - 7 days, now]
WindowLogs ==
    {r \in logs : now - WindowDays * HoursPerDay <= r.datetime /\ r.datetime <= now}

\* this step sends the response of a request to route op
Answers(op) == resp'.n # resp.n /\ resp'.op = op

\* this step runs the generate handler up to its completion call or its 400
GenerateStarts ==
    \/ Answers("generateReport") /\ gen' = gen
    \/ \E i \in DOMAIN gen : gen[i].pc = "idle" /\ gen'[i].pc = "await"

\* C1: a generate request that finds no log dated in [now - 7 days, now] is
\* answered 400 "not enough data" without a completion call, and leaves the
\* reports table as it was.
C1_EmptyWindowInsufficientData ==
    [][ (WindowLogs = {} /\ GenerateStarts)
          => /\ Answers("generateReport")
             /\ resp'.status = 400
             /\ resp'.err = "not enough data"
             /\ resp'.ai = "none"
             /\ gen' = gen
             /\ reports' = reports
             /\ reportSeq' = reportSeq ]_vars

\* the 400 was given while the store held logs, all of them outside the window
C1_Witness ==
    /\ resp.op = "generateReport"
    /\ resp.status = 400
    /\ logs # {}
    /\ WindowLogs = {}

\* C2: a generate request whose completion call fails is answered with an
\* error and inserts nothing into the reports table.
C2_FailedNarrativeNotPersisted ==
    [][ (Answers("generateReport") /\ resp'.req.kind = "error")
          => /\ resp'.status = 500
             /\ reports' = reports
             /\ reportSeq' = reportSeq ]_vars

\* the call failed while the reports table already held a report
C2_Witness ==
    /\ resp.op = "generateReport"
    /\ resp.req.kind = "error"
    /\ resp.status = 500
    /\ reports # {}

\* the response is the 201 of a generate request
ReportCreated == resp.op = "generateReport" /\ resp.status = 201

\* C7 as stated: the content of a persisted report is exactly the text the
\* completion service returned for the request, empty or absent text included.
C7_ContentVerbatim ==
    ReportCreated => /\ resp.body \in reports
                     /\ resp.body.content = resp.req.content

\* C7 as amended: the content of a persisted report is the text the
\* completion service returned when that text is not empty, and the fixed
\* placeholder when the service returned empty or absent content.
C7_ContentOrPlaceholder ==
    /\ ReportCreated =>
         /\ resp.body \in reports
         /\ resp.body.content =
              IF resp.req.content = <<>> \/ resp.req.content = AbsentText
              THEN Placeholder
              ELSE resp.req.content
    /\ \A r \in reports : r.content # <<>> /\ r.content # AbsentText

\* a report was persisted for a request whose completion text was empty
C7_Witness ==
    /\ ReportCreated
    /\ resp.req.content = <<>>
    /\ resp.body.content = Placeholder

\* the four fields of an EmotionAnalysis, each of its type
IsEmotionAnalysis(v) ==
    /\ v.k = "obj"
    /\ Len(v.keys) = 4
    /\ {v.keys[i] : i \in 1..Len(v.keys)} =
          {"primaryEmotion", "intensity", "triggers", "copingStrategies"}
    /\ \A i \in 1..Len(v.keys) :
          LET f == v.items[i]
          IN  CASE v.keys[i] = "primaryEmotion" -> f.k = "str"
                [] v.keys[i] = "intensity" -> f.k = "num" /\ f.n \in 1..10
                [] OTHER -> /\ f.k = "arr"
                            /\ \A j \in 1..Len(f.items) : f.items[j].k = "str"

\* the delivered text is a JSON object of the EmotionAnalysis shape
HasAnalysisShape(text) ==
    /\ text # AbsentText
    /\ JSONParse(text).ok
    /\ IsEmotionAnalysis(JSONParse(text).val)

\* C3 as stated: whenever the delivered text is not a JSON object of the
\* EmotionAnalysis shape, the request is answered 200 with the fixed fallback.
C3_UnusableOutputFallsBack ==
    (resp.op = "analyzeEmotion" /\ resp.ai = "delivered"
        /\ ~HasAnalysisShape(resp.req.ai.content))
      => (resp.status = 200 /\ resp.body = EmotionFallback)

\* the text has a character that is not whitespace
HasContent(t) == t # AbsentText /\ \E i \in 1..Len(t) : t[i] # WS

\* C4: when the completion call of an emotion analysis fails, the response is
\* the 500 "unavailable" error and carries no analysis; the fallback is sent
\* only for a delivered text that failed to parse.
C4_ServiceFailureSurfaced ==
    resp.op = "analyzeEmotion" =>
      /\ (HasContent(resp.req.feeling) /\ resp.req.ai.kind = "error")
           => /\ resp.status = 500
              /\ resp.err = "emotion analysis unavailable"
              /\ resp.body = NoAnalysis
      /\ resp.body = EmotionFallback
           => /\ resp.req.ai.kind = "delivered"
              /\ ~JSONParse(resp.req.ai.content).ok

\* the completion call of an emotion analysis failed
C4_Witness ==
    /\ resp.op = "analyzeEmotion"
    /\ HasContent(resp.req.feeling)
    /\ resp.req.ai.kind = "error"
    /\ resp.status = 500

\* C5: an emotion analysis whose feeling text is missing, empty or all
\* whitespace is answered 400 and makes no completion call.
C5_BlankFeelingRejected ==
    (resp.op = "analyzeEmotion" /\ ~HasContent(resp.req.feeling))
      => /\ resp.status = 400
         /\ resp.ai = "none"
         /\ resp.sent = NoBody
         /\ resp.body = NoAnalysis

\* a feeling of whitespace only was rejected although the service would have
\* delivered an analysis
C5_Witness ==
    /\ resp.op = "analyzeEmotion"
    /\ resp.req.feeling = <<WS, WS>>
    /\ resp.req.ai.kind = "delivered"
    /\ resp.status = 400

\* a body of POST /api/logs with a missing or malformed required field
MalformedLog(req) ==
    \/ req.datetime = NoDate
    \/ req.feeling = AbsentText
    \/ req.feeling = <<>>
    \/ req.acted \notin {"yes", "no"}

\* C6 as stated: a log submission with a missing or malformed required field
\* is answered with a validation error (400) and inserts nothing.
C6_MalformedLogRejected ==
    [][ (Answers("submitLog") /\ MalformedLog(resp'.req))
          => (resp'.status = 400 /\ logs' = logs) ]_vars

\* the response is that of a chat request that reached the completion call
ChatSent == resp.op = "chat" /\ resp.ai # "none"

\* the context lines of the system message of that request
SentContext == resp.sent[1].context

\* the in-window logs with fewer than ChatLimit in-window logs dated later
MostRecentInWindow ==
    {r \in WindowLogs :
        Cardinality({q \in WindowLogs : q.datetime > r.datetime}) < ChatLimit}

\* C8 as stated: every line of the chat context is a log dated in
\* [now - 7 days, now], and every one of the (up to ten) most recent logs of
\* that window has its line.
C8_ContextWithinWindow ==
    ChatSent =>
      /\ \A i \in 1..Len(SentContext) :
            /\ now - WindowDays * HoursPerDay <= SentContext[i].datetime
            /\ SentContext[i].datetime <= now
      /\ \A r \in MostRecentInWindow :
            \E i \in 1..Len(SentContext) : SentContext[i].datetime = r.datetime

\* C9 as stated: with more than ten logs in the window the chat context has
\* exactly ten lines, those of the ten most recent logs of the window, newest
\* first.
C9_TenMostRecentNewestFirst ==
    (ChatSent /\ Cardinality(WindowLogs) > ChatLimit) =>
      /\ Len(SentContext) = ChatLimit
      /\ {SentContext[i].datetime : i \in 1..Len(SentContext)} =
            {r.datetime : r \in MostRecentInWindow}
      /\ \A i, j \in 1..Len(SentContext) :
            i < j => SentContext[i].datetime >= SentContext[j].datetime

\* the number of in-window logs of hour h
HourCount(h) ==
    Cardinality({r \in WindowLogs : r.datetime % HoursPerDay = h})

\* C10: the peak hour of a generate request is an hour 0..23 with the largest
\* number of in-window logs, and the smallest such hour.
C10_PeakHourLowestMaximum ==
    \A i \in DOMAIN gen :
      gen[i].pc = "await" =>
        LET p == gen[i].summary.peakHour
        IN  /\ p \in 0..(HoursPerDay - 1)
            /\ \A h \in 0..(HoursPerDay - 1) :
                  /\ HourCount(h) <= HourCount(p)
                  /\ h < p => HourCount(h) < HourCount(p)

\* a request computed its peak hour from a window where a later hour has as
\* many logs as the peak hour
C10_Witness ==
    \E i \in DOMAIN gen :
      /\ gen[i].pc = "await"
      /\ \E h \in 0..(HoursPerDay - 1) :
            /\ h > gen[i].summary.peakHour
            /\ HourCount(h) = HourCount(gen[i].summary.peakHour)

\* the words listed by a request that is at its completion call
ListedWords(i) ==
    {gen[i].summary.topEmotions[k] : k \in 1..Len(gen[i].summary.topEmotions)}

\* C11: the empty string never appears among the top emotion words of a
\* generate request, whatever whitespace the feeling texts of the window hold.
C11_EmptyFragmentNeverListed ==
    \A i \in DOMAIN gen : gen[i].pc = "await" => <<>> \notin ListedWords(i)

\* the places (row, first, last) where a token stands in the window: a
\* maximal non-empty run of characters other than whitespace
TokenPlaces ==
    { <<r, a, b>> \in
        UNION { {r} \X (1..Len(r.feeling)) \X (1..Len(r.feeling)) : r \in WindowLogs } :
        /\ a <= b
        /\ \A k \in a..b : r.feeling[k] # WS
        /\ a = 1 \/ r.feeling[a - 1] = WS
        /\ b = Len(r.feeling) \/ r.feeling[b + 1] = WS }

TokenAt(p) == ToLowerCase(SubSeq(p[1].feeling, p[2], p[3]))

WindowTokens == {TokenAt(p) : p \in TokenPlaces}

TokenCount(word) == Cardinality({p \in TokenPlaces : TokenAt(p) = word})

\* C12: the top emotion words of a generate request are at most 3, at most as
\* many as the distinct tokens of the window's feeling texts, and pairwise
\* different.
C12_TopWordsBounded ==
    \A i \in DOMAIN gen :
      gen[i].pc = "await" =>
        LET top == gen[i].summary.topEmotions
        IN  /\ Len(top) <= 3
            /\ Len(top) <= Cardinality(WindowTokens)
            /\ \A j, k \in 1..Len(top) : j # k => top[j] # top[k]

\* C13: the top emotion words of a generate request stand in non-increasing
\* order of their token count over the window, and no token outside the list
\* has a higher count than a listed one.
C13_TopWordsRankedByCount ==
    \A i \in DOMAIN gen :
      gen[i].pc = "await" =>
        LET top == gen[i].summary.topEmotions
        IN  /\ \A j, k \in 1..Len(top) :
                  j < k => TokenCount(top[j]) >= TokenCount(top[k])
            /\ \A w \in WindowTokens \ ListedWords(i) :
                  \A k \in 1..Len(top) : TokenCount(w) <= TokenCount(top[k])

\* C14: the resistance rate of a generate request is an integer from 0 to 100,
\* 100 when no log of the window was acted on and 0 when every one was.
C14_ResistanceRateRange ==
    \A i \in DOMAIN gen :
      gen[i].pc = "await" =>
        LET rate == gen[i].summary.resistanceRate
        IN  /\ rate \in 0..100
            /\ (\A r \in WindowLogs : r.acted # "yes") => rate = 100
            /\ (\A r \in WindowLogs : r.acted = "yes") => rate = 0

\* a request computed the rate of a window of several logs, none acted on
C14_Witness ==
    \E i \in DOMAIN gen :
      /\ gen[i].pc = "await"
      /\ Cardinality(WindowLogs) >= 2
      /\ \A r \in WindowLogs : r.acted = "no"
      /\ gen[i].summary.resistanceRate = 100

\* C15: in the statistics of a generate request the acted and the resisted
\* impulses add up to the total, the acted impulses are the logs of the window
\* with acted = yes, and neither count is negative.
C15_ActedPlusResistedIsTotal ==
    \A i \in DOMAIN gen :
      gen[i].pc = "await" =>
        LET s == gen[i].summary
        IN  /\ s.actedImpulses + s.resistedImpulses = s.totalImpulses
            /\ s.actedImpulses = Cardinality({r \in WindowLogs : r.acted = "yes"})
            /\ s.actedImpulses >= 0
            /\ s.resistedImpulses >= 0

\* a request counted a window that holds acted and resisted impulses, next to
\* logs outside the window
C15_Witness ==
    \E i \in DOMAIN gen :
      /\ gen[i].pc = "await"
      /\ gen[i].summary.actedImpulses >= 1
      /\ gen[i].summary.resistedImpulses >= 2
      /\ logs # WindowLogs

ReportIdsInUse == {r.id : r \in reports}

\* C16: a report read back by id is the row generateReport persisted and
\* returned: a 201 of generateReport returns the row it adds to the store, no
\* step changes or removes a stored row or gives two rows one id, and
\* getReport with the id of a stored row answers 200 with that row,
\* week_start, week_end and content included.
C16_ReportReadBackById ==
    [][ /\ (Answers("generateReport") /\ resp'.status = 201)
            => resp'.body \in reports' \ reports
        /\ reports \subseteq reports'
        /\ \A r, q \in reports' : r.id = q.id => r = q
        /\ (Answers("getReport") /\ resp'.req \in ReportIdsInUse)
            => /\ resp'.status = 200
               /\ resp'.body \in reports
               /\ resp'.body.id = resp'.req ]_vars

\* the older of two stored reports was read back by its id after the log
\* store had been cleared
C16_Witness ==
    /\ resp.op = "getReport"
    /\ resp.status = 200
    /\ resp.body \in reports
    /\ \E q \in reports : q.id > resp.body.id
    /\ logs = {}

\* C17: the reports store only grows: a 201 of generateReport adds exactly one
\* row, under an id no stored row has, also when a stored report covers the
\* same week; every other step leaves the store as it was.
C17_ReportsAppendOnly ==
    [][ IF Answers("generateReport") /\ resp'.status = 201
        THEN /\ resp'.body.id \notin ReportIdsInUse
             /\ reports' = reports \cup {resp'.body}
             /\ Cardinality(reports') = Cardinality(reports) + 1
        ELSE reports' = reports ]_vars

\* two stored reports cover the same week
C17_Witness ==
    \E r, q \in reports :
      /\ r.id # q.id
      /\ r.week_start = q.week_start
      /\ r.week_end = q.week_end

\* C18: every stored impulse log has acted = yes or acted = no, whatever the
\* clients submitted.
C18_StoredActedYesOrNo ==
    \A r \in logs : r.acted \in {"yes", "no"}

\* a submission with another acted value was refused while the store held a
\* row
C18_Witness ==
    /\ resp.op = "submitLog"
    /\ resp.req.acted \notin {"yes", "no", Absent}
    /\ resp.status = 500
    /\ logs # {}

\* the history turns of the chat request that was answered
SentTurns ==
    IF resp.req.history.isArray THEN resp.req.history.turns ELSE <<>>

\* C19 as stated: the conversation a chat request sends to the completion
\* service is the system message (persona and context), then the caller's
\* history turns in their order, each tagged user or assistant, then the new
\* user message as the last element; no other message has the system role.
C19_ConversationOrder ==
    ChatSent =>
      /\ Len(resp.sent) = Len(SentTurns) + 2
      /\ resp.sent[1].role = "system"
      /\ resp.sent[1].content = Persona
      /\ \A k \in 1..Len(SentTurns) :
            /\ resp.sent[k + 1] = SentTurns[k]
            /\ resp.sent[k + 1].role \in {"user", "assistant"}
      /\ resp.sent[Len(resp.sent)] = Message("user", resp.req.message, <<>>)
      /\ \A k \in 2..Len(resp.sent) : resp.sent[k].role # "system"

\* C20 as stated: getReport and deleteLog called with a numeric id that no
\* stored row has are answered 404 and change nothing.
C20_UnknownIdNotFound ==
    [][ /\ (/\ Answers("getReport")
            /\ resp'.req # BadId
            /\ resp'.req \notin ReportIdsInUse)
            => (resp'.status = 404 /\ reports' = reports /\ logs' = logs)
        /\ (/\ Answers("deleteLog")
            /\ resp'.req # BadId
            /\ resp'.req \notin {r.id : r \in logs})
            => (resp'.status = 404 /\ reports' = reports /\ logs' = logs)
      ]_vars

C22_StatisticsFromWindowOnly ==
    \A i \in DOMAIN gen :
      gen[i].pc = "await" =>
        LET s == gen[i].summary
        IN  /\ s.totalImpulses = Cardinality(WindowLogs)
            /\ s.actedImpulses = Cardinality({r \in WindowLogs : r.acted = "yes"})
            /\ s.resistedImpulses = Cardinality({r \in WindowLogs : r.acted # "yes"})
            /\ HourCount(s.peakHour) >= 1
            /\ ListedWords(i) \subseteq WindowTokens \cup {<<>>}

\* a request computed its statistics from a store that holds logs on both
\* edges of the window, an older log and a log dated in the future
C22_Witness ==
    \E i \in DOMAIN gen :
      /\ gen[i].pc = "await"
      /\ gen[i].summary.totalImpulses >= 2
      /\ \E r \in logs : r.datetime = now
      /\ \E r \in logs : r.datetime = now - WindowDays * HoursPerDay
      /\ \E r \in logs : r.datetime < now - WindowDays * HoursPerDay
      /\ \E r \in logs : r.datetime > now

\* C23: whatever log requests run between the steps of a generate request,
\* a request goes on to the completion call only when its read of the window
\* returned a log, its statistics stay those of that read, a row enters the
\* reports table only with the 201 of a request whose call was delivered, and
\* a delivered call always ends in that 201, with a total of at least 1, also
\* when the logs were deleted after the read.
C23_ReportsOnlyFromNonEmptyReads ==
    [][ /\ \A i \in DOMAIN gen :
              /\ (gen[i].pc = "idle" /\ gen'[i].pc = "await")
                    => /\ WindowLogs # {}
                       /\ gen'[i].summary.totalImpulses = Cardinality(WindowLogs)
              /\ (gen[i].pc = "await" /\ gen'[i].pc = "await")
                    => gen'[i] = gen[i]
        /\ reports' # reports
              => /\ Answers("generateReport")
                 /\ resp'.status = 201
                 /\ resp'.req.kind = "delivered"
                 /\ reports' = reports \cup {resp'.body}
                 /\ \E i \in DOMAIN gen :
                       /\ gen[i].pc = "await"
                       /\ gen'[i].pc = "idle"
                       /\ gen[i].summary.totalImpulses >= 1
                       /\ resp'.sent.summary = gen[i].summary
        /\ (Answers("generateReport") /\ resp'.ai = "delivered")
              => /\ resp'.status = 201
                 /\ resp'.body \in reports' \ reports
                 /\ resp'.sent.summary.totalImpulses >= 1 ]_vars

\* a report was created after every log had been deleted behind the read
C23_Witness ==
    /\ ReportCreated
    /\ resp.sent.summary.totalImpulses >= 1
    /\ logs = {}

\* C24 as stated: a delete issued from the Dashboard for an id on the screen
\* removes no row other than the rows the screen shows, whatever other
\* clients cleared and submitted since the rows were fetched.
C24_DeleteRemovesObservedRow ==
    [][ Answers("deleteLog")
          => (logs \ logs') \subseteq
                {dashboardLogs[k] : k \in 1..Len(dashboardLogs)} ]_vars

\* the history turns that stand for a message list
TurnsOf(msgs) == HistoryForAI(msgs).turns

\* C25 as stated: the message list of the Chat screen is never empty and
\* starts with the greeting, and the failure of a send leaves the list as it
\* was before that send.
C25_GreetingStaysFirst ==
    [][ /\ chatMessages' # <<>>
        /\ chatMessages'[1] = Greeting
        /\ (Answers("chat") /\ resp'.status # 200)
              => TurnsOf(chatMessages') = request.history.turns ]_vars

\* this step answers a request to one of the routes behind authenticate that
\* carried no token or an invalid one
AnswersWithoutToken ==
    resp'.n # resp.n /\ resp'.op \in Routes /\ resp'.tok # "good"

NoEffect ==
    /\ logs' = logs
    /\ logSeq' = logSeq
    /\ reports' = reports
    /\ reportSeq' = reportSeq
    /\ gen' = gen
    /\ resp'.ai = "none"
    /\ resp'.body = NoBody

\* C26 as stated: a request without a valid token is answered 401 and has no
\* effect on the stores and makes no completion call.
C26_AnsweredUnauthorized ==
    [][ AnswersWithoutToken => (resp'.status = 401 /\ NoEffect) ]_vars

\* C26: a request without a valid token has no effect on the stores and
\* makes no completion call; it is answered 401, unless its body is not JSON
\* (500) or the rate limiter has counted 100 requests in its window (429).
C26_RefusedWithoutEffect ==
    [][ AnswersWithoutToken
          => /\ NoEffect
             /\ resp'.status =
                   IF resp'.req = "malformed" THEN 500
                   ELSE IF hits >= RateLimitMax THEN 429
                   ELSE 401 ]_vars

\* a DELETE /api/logs with an invalid token was answered 401 and the log is
\* still stored
C26_Witness ==
    /\ resp.op = "clearLogs"
    /\ resp.tok = "bad"
    /\ resp.status = 401
    /\ logs # {}

====
